---- MODULE Spec2Model ----
(***************************************************************************)
(* Model of lib/request-manager.js: the operation factory (describe), the  *)
(* token manager (generateAccessToken), the request builder (buildRequest) *)
(* and the executor (exec), over a transport that answers each request it  *)
(* was given at some later time, in any order.                             *)
(*                                                                         *)
(* Strings that the code matches and rewrites (path templates, argument    *)
(* values) are sequences of one-character strings.  Opaque strings         *)
(* (tokens, credentials, error messages) are TLA+ strings.                 *)
(***************************************************************************)
EXTENDS Integers, Sequences, FiniteSets, TLC

VARIABLES
    options,        \* options.path of every descriptor given to describe
    accessToken,    \* configurations.getAccessToken()
    refreshToken,   \* configurations.getRefreshToken()
    clientId,       \* configurations.getClientId()
    clientSecret,   \* configurations.getClientSecret()
    calls,          \* one record per call of a generated operation
    wire            \* every request handed to the transport, in order

vars == <<options, accessToken, refreshToken, clientId, clientSecret, calls, wire>>

\* Number of operation calls a behaviour makes.
MaxCalls == 2

CallIds == 1..MaxCalls

\* Number of calls a behaviour of the token manager's specification makes.
MaxTokenCalls == 2

TokenCallIds == 1..MaxTokenCalls

AllCallIds == CallIds \cup TokenCallIds

\* JavaScript's undefined, for the opaque strings of the configuration store.
Undefined == "undefined"

JSON_MIME_TYPE == "application/json"

FORM_MIME_TYPE == "application/x-www-form-urlencoded"

-----------------------------------------------------------------------------
(* Strings *)

\* The characters of the regular expression's class [a-z|A-Z|\_|\-]: letters,
\* the bar, the underscore and the hyphen.  Digits are not in it.
Letters ==
    {"a", "b", "c", "d", "e", "f", "g", "h", "i", "j", "k", "l", "m", "n",
     "o", "p", "q", "r", "s", "t", "u", "v", "w", "x", "y", "z", "A", "B",
     "C", "D", "E", "F", "G", "H", "I", "J", "K", "L", "M", "N", "O", "P",
     "Q", "R", "S", "T", "U", "V", "W", "X", "Y", "Z"}

ParamChars == Letters \cup {"|", "_", "-"}

\* s[from..to], empty when from > to.
Slice(s, from, to) == SubSeq(s, from, to)

\* The end of the match starting at the colon at position i: the colon and
\* the longest run of class characters after it.
MatchEnd(path, i) ==
    LET stops == {j \in (i + 1)..Len(path) : path[j] \notin ParamChars}
    IN  IF stops = {} THEN Len(path)
        ELSE (CHOOSE j \in stops : \A k \in stops : j <= k) - 1

\* The matches from position i on, left to right.
RECURSIVE MatchFrom(_, _)
MatchFrom(path, i) ==
    IF i > Len(path) THEN <<>>
    ELSE IF path[i] = ":"
         THEN <<Slice(path, i, MatchEnd(path, i))>> \o MatchFrom(path, MatchEnd(path, i) + 1)
         ELSE MatchFrom(path, i + 1)

\* options.path.match(/(\:[a-z|A-Z|\_|\-]*)/g) || []
PathParameters(path) == MatchFrom(path, 1)

\* The positions where pat occurs in s as a substring.
Occurrences(s, pat) ==
    {i \in 1..(Len(s) - Len(pat) + 1) : Slice(s, i, i + Len(pat) - 1) = pat}

\* String.prototype.replace with a string pattern: the first occurrence only.
\* (No replacement value of the model holds a dollar sign.)
Replace(s, pat, repl) ==
    IF Occurrences(s, pat) = {} THEN s
    ELSE LET i == CHOOSE k \in Occurrences(s, pat) : \A m \in Occurrences(s, pat) : k <= m
         IN  Slice(s, 1, i - 1) \o repl \o Slice(s, i + Len(pat), Len(s))

\* param.replace(':', '')
StripColon(param) == Replace(param, <<":">>, <<>>)

-----------------------------------------------------------------------------
(* JavaScript values passed as arguments *)

\* An object: its own properties other than access_token (name -> string),
\* and its access_token property (Undefined when it has none).
Obj(props, at) == [f |-> props, at |-> at]

EmptyProps == [k \in {} |-> <<>>]

EmptyObj == Obj(EmptyProps, Undefined)

\* A value: t is typeof's answer ("null" stands for the value null, whose
\* typeof is "object"), s the string of a string or number, o the object.
StrVal(s) == [t |-> "string", s |-> s, o |-> EmptyObj]

ObjVal(o) == [t |-> "object", s |-> <<>>, o |-> o]

NullVal == [t |-> "null", s |-> <<>>, o |-> EmptyObj]

FnVal == [t |-> "function", s |-> <<>>, o |-> EmptyObj]

UndefVal == [t |-> "undefined", s |-> <<>>, o |-> EmptyObj]

\* typeof v == 'object'
IsObjectType(v) == v.t \in {"object", "null"}

ObjectString == <<"[", "o", "b", "j", "e", "c", "t", " ", "O", "b", "j", "e", "c", "t", "]">>

\* The string String.prototype.replace makes of a replacement value.
StringOf(v) ==
    CASE v.t = "string" -> v.s
      [] v.t = "object" -> ObjectString
      [] v.t = "null" -> <<"n", "u", "l", "l">>
      [] OTHER -> <<"u", "n", "d", "e", "f", "i", "n", "e", "d">>

\* arguments[i], undefined outside 1..length (the model's indices are the
\* code's plus one).
ArgAt(args, i) == IF i \in 1..Len(args) THEN args[i] ELSE UndefVal

-----------------------------------------------------------------------------
(* Errors, results, responses *)

\* new Error(text + names.join(', ') + cause).  No error of the module is
\* given a statusCode property.
Err(text, names, cause) ==
    [text |-> text, names |-> names, cause |-> cause, statusCode |-> Undefined]

\* null, in the error position of a callback
NoErr == Err("null", <<>>, "")

\* err.message for the errors whose message the code reads
Message(e) == IF e.cause = "" THEN e.text ELSE e.text \o e.cause

\* A response body: absent (undefined), or an object with these properties.
Body(present, message, at, rt) ==
    [present |-> present, message |-> message, access_token |-> at, refresh_token |-> rt]

NoBody == Body(FALSE, Undefined, Undefined, Undefined)

\* The second argument of a callback: null, exec's {status, body}, or the
\* token the token manager hands on.
NoRes == [kind |-> "null", status |-> 0, body |-> NoBody, token |-> Undefined]

ResponseRes(status, body) ==
    [kind |-> "response", status |-> status, body |-> body, token |-> Undefined]

TokenRes(token) == [kind |-> "token", status |-> 0, body |-> NoBody, token |-> token]

\* What the transport hands to exec's callback: (error, response, body).
TransportError(msg) == [error |-> msg, status |-> 0, body |-> NoBody]

HttpResponse(status, body) == [error |-> Undefined, status |-> status, body |-> body]

-----------------------------------------------------------------------------
(* Configuration and validation: ./configurations and ./validation *)

BaseUrl == <<"h">>

UserAgent == "dx-nodejs"

\* options.headers: undefined, or an object whose accept and content-type
\* may each be undefined.
Headers(accept, contentType) == [defined |-> TRUE, accept |-> accept, contentType |-> contentType]

NoHeaders == [defined |-> FALSE, accept |-> Undefined, contentType |-> Undefined]

\* A schema: the property names it requires; NoSchema is undefined.
Schema(required) == [defined |-> TRUE, required |-> required]

NoSchema == [defined |-> FALSE, required |-> {}]

\* payload[prop] is truthy: the payload is an object that has the property
\* with a non-empty string.
HasTruthy(payload, prop) ==
    /\ payload.t = "object"
    /\ prop \in DOMAIN payload.o.f
    /\ payload.o.f[prop] # <<>>

\* validation.validate(schema, payload): the required properties the payload
\* does not have.
Validate(schema, payload) ==
    {r \in schema.required : ~(payload.t = "object" /\ r \in DOMAIN payload.o.f)}

-----------------------------------------------------------------------------
(* The state the functions of the module read and write *)

State == [options |-> options, accessToken |-> accessToken,
          refreshToken |-> refreshToken, calls |-> calls, wire |-> wire]

\* The payload of an OAuth exchange.  Neither exchange of the module puts a
\* refresh_token property in it.
Cred(id, secret, grant) ==
    [client_id |-> id, client_secret |-> secret, grant_type |-> grant,
     refresh_token |-> Undefined]

NoCred == Cred(Undefined, Undefined, Undefined)

\* The options exec and buildRequest are given.  `own` says that payload is
\* the payload object of the call (which the call's record holds), `cred` is
\* the payload of an OAuth exchange.
Intent(path, method, payload, own, cred, schema, headers) ==
    [path |-> path, method |-> method, payload |-> payload, own |-> own,
     cred |-> cred, schema |-> schema, headers |-> headers]

\* The value true of request.json
TrueVal == [t |-> "boolean", s |-> <<>>, o |-> EmptyObj]

\* No request: what a call holds that buildRequest has returned nothing to.
NoRequest ==
    [uri |-> <<>>, method |-> "", userAgent |-> "", accept |-> "",
     contentType |-> "", qs |-> EmptyObj,
     qsIsPayload |-> FALSE, json |-> UndefVal, form |-> UndefVal,
     cred |-> NoCred, strictSSL |-> FALSE]

\* The outcome of buildRequest: it threw err, or returned req, having left
\* the payload as `payload`.
Threw(err, payload) ==
    [threw |-> TRUE, err |-> err, payload |-> payload, req |-> NoRequest]

Built(req, payload) == [threw |-> FALSE, err |-> NoErr, payload |-> payload, req |-> req]

\* requestManager.buildRequest
buildRequest(s, opt) ==
    LET accept == IF opt.headers.defined /\ opt.headers.accept # Undefined
                  THEN opt.headers.accept ELSE JSON_MIME_TYPE
        contentType == IF opt.headers.defined /\ opt.headers.contentType # Undefined
                       THEN opt.headers.contentType ELSE JSON_MIME_TYPE
        base == [uri |-> BaseUrl \o opt.path, method |-> opt.method,
                 userAgent |-> UserAgent, accept |-> accept,
                 contentType |-> contentType, qs |-> EmptyObj, qsIsPayload |-> FALSE,
                 json |-> TrueVal, form |-> UndefVal, cred |-> NoCred, strictSSL |-> TRUE]
    IN  IF opt.method = "GET"
        THEN \* request.qs = options.payload; request.qs.access_token = ...
             IF opt.payload.t = "object"
             THEN LET qs == [opt.payload.o EXCEPT !.at = s.accessToken]
                  IN  Built([base EXCEPT !.qs = qs, !.qsIsPayload = TRUE], ObjVal(qs))
             ELSE Threw(Err("TypeError", <<>>, ""), opt.payload)
        ELSE LET qs == [EmptyObj EXCEPT !.at = s.accessToken]
             IN  IF contentType = JSON_MIME_TYPE
                 THEN IF opt.schema.defined /\ Validate(opt.schema, opt.payload) # {}
                      THEN Threw(Err("ValidationError", <<>>, ""), opt.payload)
                      ELSE Built([base EXCEPT !.qs = qs, !.json = opt.payload,
                                              !.cred = opt.cred], opt.payload)
                 ELSE Built([base EXCEPT !.qs = qs, !.form = opt.payload,
                                         !.cred = opt.cred], opt.payload)

-----------------------------------------------------------------------------
(* Callbacks *)

\* The caller's completion is invoked with (err, res).  When it is handed a
\* token, at and rt are the tokens the configuration holds at that moment.
userCallback(s, c, err, res) ==
    [s EXCEPT !.calls[c].cb =
        Append(@, [err |-> err, res |-> res,
                   at |-> IF res.kind = "token" THEN s.accessToken ELSE Undefined,
                   rt |-> IF res.kind = "token" THEN s.refreshToken ELSE Undefined])]

\* An exception that nothing catches leaves the transport's callback.
Uncaught(s, c, err) == [s EXCEPT !.calls[c].uncaught = err]

\* callback.apply(null, [err, res]) for the callback k: a stack of frames,
\* the innermost function first.
RECURSIVE Apply(_, _, _, _, _)

\* The transport has not answered yet.
NoResp == [error |-> Undefined, status |-> 0, body |-> NoBody]

\* request(req, function(error, response, body){...}): the request is with
\* the transport, which keeps exec's callback and, in it, callback k; resp
\* is the answer, once it has come; at and rt are the tokens the configuration
\* holds when the request is sent.
Send(s, c, k, req) ==
    [s EXCEPT !.wire =
        Append(@, [origin |-> c, k |-> k, req |-> req, answered |-> FALSE, resp |-> NoResp,
                   at |-> s.accessToken, rt |-> s.refreshToken])]

\* exec whose catch hands the error to the callback and does not return.
exec_NoReturnInCatch(s, c, opt, k) ==
    LET b == buildRequest(s, opt)
        s1 == IF opt.own THEN [s EXCEPT !.calls[c].payload = b.payload] ELSE s
    IN  IF b.threw THEN Send(Apply(s1, c, k, b.err, NoRes), c, k, b.req)
        ELSE Send(s1, c, k, b.req)

\* requestManager.exec, up to handing the request to the transport
exec(s, c, opt, k) ==
    LET b == buildRequest(s, opt)
        s1 == IF opt.own THEN [s EXCEPT !.calls[c].payload = b.payload] ELSE s
    IN  IF b.threw THEN Apply(s1, c, k, b.err, NoRes)
        ELSE Send(s1, c, k, b.req)

\* The callback exec gives to request (lines 205-218), for entry i of wire.
execCallback(s, i, resp) ==
    LET c == s.wire[i].origin
        k == s.wire[i].k
        s1 == [s EXCEPT !.wire[i].answered = TRUE, !.wire[i].resp = resp]
    IN  IF resp.error # Undefined
        THEN Apply(s1, c, k, Err(resp.error, <<>>, ""), NoRes)
        ELSE IF resp.status < 200 \/ resp.status >= 300
             THEN IF ~resp.body.present
                  THEN Uncaught(s1, c, Err("TypeError", <<>>, ""))
                  ELSE Apply(s1, c, k,
                             Err(IF resp.body.message # Undefined THEN resp.body.message
                                 ELSE "Unknown Error", <<>>, ""), NoRes)
             ELSE Apply(s1, c, k, NoErr, ResponseRes(resp.status, resp.body))

\* The function(err) that describe's operation gives to generateAccessToken
\* (lines 67-79).
describeCallback(s, c, err) ==
    IF err # NoErr THEN userCallback(s, c, err, NoRes)
    ELSE exec(s, c,
              Intent(s.options[s.calls[c].desc].path, s.options[s.calls[c].desc].method,
                     s.calls[c].payload,
                     TRUE, NoCred, s.calls[c].schema, NoHeaders),
              <<"user">>)

\* generateAccessToken's callback releasing its caller before it stores the
\* tokens.
tokenCallback_CallbackFirst(s, c, k, err, res) ==
    IF err # NoErr
    THEN Apply(s, c, k, Err("Error getting the access_token: ", <<>>, Message(err)), NoRes)
    ELSE IF ~res.body.present
         THEN Uncaught(s, c, Err("TypeError", <<>>, ""))
         ELSE [Apply(s, c, k, NoErr, TokenRes(res.body.access_token))
                  EXCEPT !.accessToken = res.body.access_token,
                         !.refreshToken = res.body.refresh_token]

\* The function(err, response) of generateAccessToken (lines 103-112), whose
\* callback is k.
tokenCallback(s, c, k, err, res) ==
    IF err # NoErr
    THEN Apply(s, c, k, Err("Error getting the access_token: ", <<>>, Message(err)), NoRes)
    ELSE IF ~res.body.present
         THEN Uncaught(s, c, Err("TypeError", <<>>, ""))
         ELSE Apply([s EXCEPT !.accessToken = res.body.access_token,
                              !.refreshToken = res.body.refresh_token],
                    c, k, NoErr, TokenRes(res.body.access_token))

\* refreshAccessToken's callback storing the access token alone.
refreshCallback_AccessOnly(s, c, k, err, res) ==
    IF err # NoErr
    THEN Apply(s, c, k, Err("Error refreshing previous access_token: ", <<>>, Message(err)),
               NoRes)
    ELSE IF ~res.body.present
         THEN Uncaught(s, c, Err("TypeError", <<>>, ""))
         ELSE Apply([s EXCEPT !.accessToken = res.body.access_token],
                    c, k, NoErr, TokenRes(res.body.access_token))

\* The function(err, response) of refreshAccessToken (lines 132-141), whose
\* callback is k.
refreshCallback(s, c, k, err, res) ==
    IF err # NoErr
    THEN Apply(s, c, k, Err("Error refreshing previous access_token: ", <<>>, Message(err)),
               NoRes)
    ELSE IF ~res.body.present
         THEN Uncaught(s, c, Err("TypeError", <<>>, ""))
         ELSE Apply([s EXCEPT !.accessToken = res.body.access_token,
                              !.refreshToken = res.body.refresh_token],
                    c, k, NoErr, TokenRes(res.body.access_token))

Apply(s, c, k, err, res) ==
    CASE Head(k) = "user" -> userCallback(s, c, err, res)
      [] Head(k) = "describe" -> describeCallback(s, c, err)
      [] Head(k) = "token" -> tokenCallback(s, c, Tail(k), err, res)
      [] Head(k) = "refresh" -> refreshCallback(s, c, Tail(k), err, res)

-----------------------------------------------------------------------------
(* The token manager *)

\* generateAccessToken that does not look at the stored token.
generateAccessToken_NoStoredCheck(s, c, k) ==
    IF clientId = Undefined \/ clientSecret = Undefined
    THEN Apply(s, c, k, Err("Must set client_id and client_secret", <<>>, ""), NoRes)
    ELSE exec(s, c,
              Intent(<<"/", "o", "a", "u", "t", "h", "/", "t", "o", "k", "e", "n">>,
                     "POST", ObjVal(EmptyObj), FALSE,
                     Cred(clientId, clientSecret, "client_credentials"),
                     NoSchema, NoHeaders),
              <<"token">> \o k)

\* generateAccessToken that gives up only when both credentials are missing.
generateAccessToken_BothMissing(s, c, k) ==
    IF s.accessToken # Undefined
    THEN Apply(s, c, k, NoErr, TokenRes(s.accessToken))
    ELSE IF clientId = Undefined /\ clientSecret = Undefined
         THEN Apply(s, c, k, Err("Must set client_id and client_secret", <<>>, ""), NoRes)
         ELSE exec(s, c,
                   Intent(<<"/", "o", "a", "u", "t", "h", "/", "t", "o", "k", "e", "n">>,
                          "POST", ObjVal(EmptyObj), FALSE,
                          Cred(clientId, clientSecret, "client_credentials"),
                          NoSchema, NoHeaders),
                   <<"token">> \o k)

\* requestManager.generateAccessToken(callback), with callback k
generateAccessToken(s, c, k) ==
    IF s.accessToken # Undefined
    THEN Apply(s, c, k, NoErr, TokenRes(s.accessToken))
    ELSE IF clientId = Undefined \/ clientSecret = Undefined
         THEN Apply(s, c, k, Err("Must set client_id and client_secret", <<>>, ""), NoRes)
         ELSE exec(s, c,
                   Intent(<<"/", "o", "a", "u", "t", "h", "/", "t", "o", "k", "e", "n">>,
                          "POST", ObjVal(EmptyObj), FALSE,
                          Cred(clientId, clientSecret, "client_credentials"),
                          NoSchema, NoHeaders),
                   <<"token">> \o k)

\* requestManager.refreshAccessToken(callback), with callback k
refreshAccessToken(s, c, k) ==
    IF s.refreshToken = Undefined
    THEN Apply(s, c, k,
               Err("You need the refresh_token to refresh the access_token", <<>>, ""), NoRes)
    ELSE exec(s, c,
              Intent(<<"/", "o", "a", "u", "t", "h", "/", "t", "o", "k", "e", "n">>,
                     "POST", ObjVal(EmptyObj), FALSE,
                     Cred(Undefined, s.accessToken, "refresh_token"),
                     NoSchema, NoHeaders),
              <<"refresh">> \o k)

-----------------------------------------------------------------------------
(* The operation factory *)

\* throw err, out of the operation, to its caller
Throw(s, c, err) == [s EXCEPT !.calls[c].thrown = err]

\* pathParameters.forEach(function(param, index){
\*     options.path = options.path.replace(param, _arguments[index]); })
\* from parameter i on.
RECURSIVE SubstArguments(_, _, _, _)
SubstArguments(path, params, args, i) ==
    IF i > Len(params) THEN path
    ELSE SubstArguments(Replace(path, params[i], StringOf(ArgAt(args, i))), params, args, i + 1)

\* The forEach of lines 48-56 from parameter i on: the path, and the
\* properties the payload lacks.
RECURSIVE SubstPayload(_, _, _, _, _)
SubstPayload(path, missing, params, payload, i) ==
    IF i > Len(params) THEN [path |-> path, missing |-> missing]
    ELSE LET prop == StripColon(params[i])
         IN  IF HasTruthy(payload, prop)
             THEN SubstPayload(Replace(path, params[i], payload.o.f[prop]), missing,
                               params, payload, i + 1)
             ELSE SubstPayload(path, Append(missing, prop), params, payload, i + 1)

\* pathParameters.join(', ').replace(/\:/g, ''): the names, without colons
Names(params) == [i \in 1..Len(params) |-> StripColon(params[i])]

\* The record of a call that has just been made.
NewCall(s, d, args, schema) ==
    [st |-> "called", kind |-> "operation", desc |-> d, args |-> args, schema |-> schema,
     payload |-> UndefVal, thrown |-> NoErr, uncaught |-> NoErr, cb |-> <<>>,
     tokenAtCall |-> s.accessToken, pathAtCall |-> s.options[d].path,
     built |-> NoRequest]

\* A check that only looks for an absent last argument.
CallbackMissing_UndefinedOnly(callback) == callback.t = "undefined"

\* typeof callback !== 'function' || callback === undefined
CallbackMissing(callback) == callback.t # "function" \/ callback.t = "undefined"

\* The function describe(options) returns (lines 19-80), called as call c
\* with `arguments` args and this.schema schema, on descriptor d.
operation(s, c, d, args, schema) ==
    LET s0 == [s EXCEPT !.calls[c] = NewCall(s, d, args, schema)]
        callback == ArgAt(args, Len(args))
        pathParameters == PathParameters(s.options[d].path)
        payload == IF IsObjectType(ArgAt(args, Len(args) - 1))
                   THEN ArgAt(args, Len(args) - 1) ELSE ObjVal(EmptyObj)
        s1 == [s0 EXCEPT !.calls[c].payload = payload]
    IN  IF CallbackMissing(callback)
        THEN Throw(s0, c, Err("Callback is required", <<>>, ""))
        ELSE IF s.options[d].method \in {"GET", "DELETE"}
             THEN IF Len(pathParameters) + 1 > Len(args)
                  THEN Throw(s1, c, Err("Expecting parameters: ", Names(pathParameters), ""))
                  ELSE generateAccessToken(
                           [s1 EXCEPT !.options[d].path =
                                SubstArguments(@, pathParameters, args, 1)],
                           c, <<"describe">>)
             ELSE LET r == SubstPayload(s.options[d].path, <<>>, pathParameters, payload, 1)
                      s2 == [s1 EXCEPT !.options[d].path = r.path]
                  IN  IF Len(r.missing) > 0
                      THEN Throw(s2, c, Err("The JSON is missing the following properties: ",
                                            r.missing, ""))
                      ELSE generateAccessToken(s2, c, <<"describe">>)

-----------------------------------------------------------------------------
(* The descriptors, the calls and the transport's answers of the model *)

Descs == {"get", "del", "post", "put"}

\* The path template each descriptor is given to describe with.
Template(d) ==
    CASE d = "get" -> <<"/", ":", "a", "/", ":", "b">>
      [] d = "del" -> <<"/", ":", "a">>
      [] d = "post" -> <<"/", ":", "a">>
      [] d = "put" -> <<"/">>

Method(d) ==
    CASE d = "get" -> "GET"
      [] d = "del" -> "DELETE"
      [] d = "post" -> "POST"
      [] d = "put" -> "PUT"

\* this.schema of the object each operation is a method of.
ThisSchema(d) == IF d = "post" THEN Schema({<<"n">>}) ELSE NoSchema

V1 == StrVal(<<"1">>)

V2 == StrVal(<<"2">>)

\* A payload object with the given properties.
P(props) == ObjVal(Obj(props, Undefined))

PQ == P(<<"q">> :> <<"x">>)

PA1 == P(<<"a">> :> <<"1">>)

PA1N == P(<<"a">> :> <<"1">> @@ <<"n">> :> <<"x">>)

PEmptyA == P(<<"a">> :> <<>> @@ <<"n">> :> <<"x">>)

\* The argument lists the operation of descriptor d is called with.
ArgLists(d) ==
    CASE d = "get" ->
            {<<FnVal>>, <<V1, FnVal>>, <<V1, V2, FnVal>>, <<V1, PQ, FnVal>>,
             <<V2, V1, PQ, FnVal>>, <<V1, V2, NullVal, FnVal>>, <<V1, V2>>}
      [] d = "del" ->
            {<<FnVal>>, <<V1, FnVal>>, <<V2>>}
      [] d = "post" ->
            {<<PA1N, FnVal>>, <<PA1, FnVal>>, <<PEmptyA, FnVal>>, <<FnVal>>, <<PA1N>>}
      [] d = "put" ->
            {<<PQ, FnVal>>}

\* The tokens the server issues in answer to exchange i.
IssuedAccess(i) == "t" \o ToString(i)

IssuedRefresh(i) == "r" \o ToString(i)

\* The options exec and buildRequest are called with directly: a PUT with a
\* form content type, a GET whose payload becomes the query, a POST whose
\* payload the schema rejects, and a GET with no payload.
DirectOptions ==
    {Intent(<<"/">>, "PUT", PQ, TRUE, NoCred, NoSchema, Headers(Undefined, FORM_MIME_TYPE)),
     Intent(<<"/", "1", "/", "2">>, "GET", PQ, TRUE, NoCred, NoSchema, NoHeaders),
     Intent(<<"/">>, "POST", PA1, TRUE, NoCred, Schema({<<"n">>}), NoHeaders),
     Intent(<<"/">>, "GET", UndefVal, TRUE, NoCred, NoSchema, NoHeaders)}

\* What the transport may answer to request i of wire: an error, or a
\* response whose body is absent or an object.  A token exchange is answered
\* 500 with or without a body, or 200 with no body, with the body {}, or
\* with a body that issues tokens.
Responses(i) ==
    IF wire[i].req.cred.grant_type # Undefined
    THEN {TransportError("ECONNRESET"),
          HttpResponse(500, NoBody),
          HttpResponse(500, Body(TRUE, "denied", Undefined, Undefined)),
          HttpResponse(200, NoBody),
          HttpResponse(200, Body(TRUE, Undefined, Undefined, Undefined)),
          HttpResponse(200, Body(TRUE, Undefined, IssuedAccess(i), IssuedRefresh(i)))}
    ELSE {TransportError("ECONNRESET"),
          HttpResponse(500, Body(TRUE, "boom", Undefined, Undefined)),
          HttpResponse(500, Body(TRUE, Undefined, Undefined, Undefined)),
          HttpResponse(500, NoBody),
          HttpResponse(200, Body(TRUE, Undefined, Undefined, Undefined))}

-----------------------------------------------------------------------------
(* The state machine *)

\* The client id and secret the configuration holds.
Credentials == {<<"id", "secret">>, <<Undefined, "secret">>, <<"id", Undefined>>}

IdleCall ==
    [st |-> "idle", kind |-> "none", desc |-> "get", args |-> <<>>, schema |-> NoSchema,
     payload |-> UndefVal, thrown |-> NoErr, uncaught |-> NoErr, cb |-> <<>>,
     tokenAtCall |-> Undefined, pathAtCall |-> <<>>, built |-> NoRequest]

Init ==
    /\ options = [d \in Descs |-> [path |-> Template(d), method |-> Method(d)]]
    /\ accessToken \in {Undefined, "t0"}
    /\ refreshToken = IF accessToken = Undefined THEN Undefined ELSE "r0"
    /\ \E cred \in Credentials :
          /\ clientId = cred[1]
          /\ clientSecret = cred[2]
          /\ accessToken # Undefined => cred = <<"id", "secret">>
    /\ calls = [c \in AllCallIds |-> IdleCall]
    /\ wire = <<>>

\* The state s becomes the next state.
Becomes(s) ==
    /\ options' = s.options
    /\ accessToken' = s.accessToken
    /\ refreshToken' = s.refreshToken
    /\ calls' = s.calls
    /\ wire' = s.wire
    /\ UNCHANGED <<clientId, clientSecret>>

\* Some caller calls the operation of descriptor d; calls are numbered in
\* the order they are made.
Call(c, d, args) ==
    /\ calls[c].st = "idle"
    /\ \A b \in CallIds : b < c => calls[b].st # "idle"
    /\ Becomes(operation(State, c, d, args, ThisSchema(d)))

\* The record of a call of a function of the token manager, made with the
\* callback alone.
NewTokenCall(s, kind) ==
    [st |-> "called", kind |-> kind, desc |-> "none", args |-> <<FnVal>>,
     schema |-> NoSchema, payload |-> UndefVal, thrown |-> NoErr, uncaught |-> NoErr,
     cb |-> <<>>, tokenAtCall |-> s.accessToken, pathAtCall |-> <<>>,
     built |-> NoRequest]

\* Some caller calls requestManager.generateAccessToken(callback).
EnsureToken(c) ==
    /\ calls[c].st = "idle"
    /\ \A b \in TokenCallIds : b < c => calls[b].st # "idle"
    /\ Becomes(generateAccessToken(
                   [State EXCEPT !.calls[c] = NewTokenCall(State, "generateAccessToken")],
                   c, <<"user">>))

\* Some caller calls requestManager.refreshAccessToken(callback).
RefreshToken(c) ==
    /\ calls[c].st = "idle"
    /\ \A b \in TokenCallIds : b < c => calls[b].st # "idle"
    /\ Becomes(refreshAccessToken(
                   [State EXCEPT !.calls[c] = NewTokenCall(State, "refreshAccessToken")],
                   c, <<"user">>))

\* The record of a direct call of exec or buildRequest with the options opt;
\* built is the request buildRequest returns to its caller.
NewDirectCall(s, kind, opt) ==
    [st |-> "called", kind |-> kind, desc |-> "none",
     args |-> IF kind = "exec" THEN <<FnVal>> ELSE <<>>,
     schema |-> opt.schema, payload |-> opt.payload, thrown |-> NoErr, uncaught |-> NoErr,
     cb |-> <<>>, tokenAtCall |-> s.accessToken, pathAtCall |-> opt.path,
     built |-> NoRequest]

\* Some caller calls requestManager.exec(options, callback).
ExecDirect(c, opt) ==
    /\ calls[c].st = "idle"
    /\ \A b \in TokenCallIds : b < c => calls[b].st # "idle"
    /\ Becomes(exec([State EXCEPT !.calls[c] = NewDirectCall(State, "exec", opt)],
                    c, opt, <<"user">>))

\* Some caller calls requestManager.buildRequest(options): it returns the
\* request or throws, and sends nothing.
BuildDirect(c, opt) ==
    /\ calls[c].st = "idle"
    /\ \A b \in TokenCallIds : b < c => calls[b].st # "idle"
    /\ LET s0 == [State EXCEPT !.calls[c] = NewDirectCall(State, "buildRequest", opt)]
           b == buildRequest(s0, opt)
       IN  Becomes([s0 EXCEPT !.calls[c].payload = b.payload,
                              !.calls[c].thrown = b.err,
                              !.calls[c].built = b.req])

\* The transport answers request i of wire.
Respond(i, resp) ==
    /\ ~wire[i].answered
    /\ Becomes(execCallback(State, i, resp))

Next ==
    \/ \E c \in CallIds, d \in Descs : \E args \in ArgLists(d) : Call(c, d, args)
    \/ \E i \in 1..Len(wire) : \E resp \in Responses(i) : Respond(i, resp)

Spec == Init /\ [][Next]_vars

\* The operations called beside the token manager's functions.
TokenDescs == {"put"}

\* The exported functions of the module called directly, among calls of
\* operations.
NextToken ==
    \/ \E c \in TokenCallIds : EnsureToken(c)
    \/ \E c \in TokenCallIds : RefreshToken(c)
    \/ \E c \in TokenCallIds, opt \in DirectOptions : ExecDirect(c, opt)
    \/ \E c \in TokenCallIds, opt \in DirectOptions : BuildDirect(c, opt)
    \/ \E c \in TokenCallIds, d \in TokenDescs : \E args \in ArgLists(d) : Call(c, d, args)
    \/ \E i \in 1..Len(wire) : \E resp \in Responses(i) : Respond(i, resp)

SpecToken == Init /\ [][NextToken]_vars

-----------------------------------------------------------------------------
(* What the claims speak of *)

Called(c) == calls[c].st = "called"

\* The completion the call was given is callable.
Callable(c) == ArgAt(calls[c].args, Len(calls[c].args)).t = "function"

\* The requests of wire that call c caused.
RequestsOf(c) == {i \in 1..Len(wire) : wire[i].origin = c}

\* The client-credentials exchanges sent to the transport.
Exchanges == {i \in 1..Len(wire) : wire[i].req.cred.grant_type = "client_credentials"}

\* The requests of wire that are API requests of operations.
ApiRequests == {i \in 1..Len(wire) : wire[i].req.cred = NoCred}

\* The transport has answered every request call c caused.
Finished(c) == Called(c) /\ \A i \in RequestsOf(c) : wire[i].answered

\* The payload object the caller passed, if any.
HasPayloadArg(c) ==
    Len(calls[c].args) >= 2 /\ IsObjectType(calls[c].args[Len(calls[c].args) - 1])

PayloadArg(c) ==
    IF HasPayloadArg(c) THEN calls[c].args[Len(calls[c].args) - 1] ELSE ObjVal(EmptyObj)

\* The positional arguments: those before the optional payload object and
\* the completion.
PositionalCount(c) == Len(calls[c].args) - 1 - (IF HasPayloadArg(c) THEN 1 ELSE 0)

\* The placeholder names of the template the descriptor was described with.
TemplateNames(d) == Names(PathParameters(Template(d)))

\* The path that call c's own values give when substituted into the
\* template the descriptor was described with.
OwnPath(c) ==
    LET d == calls[c].desc
    IN  IF Method(d) \in {"GET", "DELETE"}
        THEN SubstArguments(Template(d), PathParameters(Template(d)), calls[c].args, 1)
        ELSE SubstPayload(Template(d), <<>>, PathParameters(Template(d)), PayloadArg(c), 1).path

\* The payload properties, among the template's placeholders, that the
\* payload of call c lacks or holds a falsy value for.
MissingOf(c) ==
    SubstPayload(Template(calls[c].desc), <<>>, PathParameters(Template(calls[c].desc)),
                 PayloadArg(c), 1).missing

-----------------------------------------------------------------------------
(* Claims *)

\* C1: while no token exchange has completed, the calls made with no stored
\* token cause exactly one POST /oauth/token client-credentials request in
\* total, however many they are (single-flight).
C1_SingleFlight ==
    (\A i \in Exchanges : ~wire[i].answered) => Cardinality(Exchanges) <= 1

\* C2: the completion of a call is invoked at most once, and never with both
\* an error and a result.
C2_CompletionAtMostOnce ==
    \A c \in CallIds :
        /\ Len(calls[c].cb) <= 1
        /\ \A j \in 1..Len(calls[c].cb) :
               ~(calls[c].cb[j].err # NoErr /\ calls[c].cb[j].res # NoRes)

\* Two overlapping calls have both completed, one with a result and one with
\* an error, and nothing is outstanding.
C2_Witness ==
    \E c1, c2 \in CallIds :
        /\ Finished(c1) /\ Finished(c2)
        /\ Len(calls[c1].cb) = 1 /\ calls[c1].cb[1].res.kind = "response"
        /\ Len(calls[c2].cb) = 1 /\ calls[c2].cb[1].err # NoErr
        /\ RequestsOf(c1) # {} /\ RequestsOf(c2) # {}

\* C3: a call made with a callable completion whose requests the transport
\* has all answered has had its completion invoked, whatever the outcome.
C3_CompletionInvoked ==
    \A c \in CallIds : (Finished(c) /\ Callable(c)) => Len(calls[c].cb) >= 1

\* C4: the path template of a descriptor stays what it was when it was given
\* to describe.
C4_TemplatePristine == \A d \in Descs : options[d].path = Template(d)

\* C5: of two calls to the same operation, each API request sent has the
\* path that substituting its own call's values into the original template
\* gives.
C5_OwnValues ==
    \A i, j \in ApiRequests :
        (/\ wire[i].origin # wire[j].origin
         /\ calls[wire[i].origin].desc = calls[wire[j].origin].desc)
        => wire[i].req.uri = BaseUrl \o OwnPath(wire[i].origin)

\* C6: a call of a GET or DELETE operation with fewer positional arguments
\* than the template has placeholders throws the error that lists exactly
\* the unfilled placeholder names, in template order, and sends nothing.
C6_MissingPathArguments ==
    \A c \in CallIds :
        (/\ Called(c) /\ Callable(c)
         /\ Method(calls[c].desc) \in {"GET", "DELETE"}
         /\ PositionalCount(c) < Len(TemplateNames(calls[c].desc)))
        => /\ calls[c].thrown =
                  Err("Expecting parameters: ",
                      SubSeq(TemplateNames(calls[c].desc), PositionalCount(c) + 1,
                             Len(TemplateNames(calls[c].desc))),
                      "")
           /\ RequestsOf(c) = {}

\* C7: a call of a POST, PUT or PATCH operation whose payload lacks
\* properties named by the template's placeholders throws the error that
\* lists exactly those properties, and sends nothing.
C7_MissingPayloadProperties ==
    \A c \in CallIds :
        (/\ Called(c) /\ Callable(c)
         /\ Method(calls[c].desc) \notin {"GET", "DELETE"}
         /\ MissingOf(c) # <<>>)
        => /\ calls[c].thrown =
                  Err("The JSON is missing the following properties: ", MissingOf(c), "")
           /\ RequestsOf(c) = {}

\* C8: a call whose last argument is absent or not callable throws
\* 'Callback is required' and changes nothing: no request is sent, the
\* tokens and the descriptors are as before.
C8_MissingCallback ==
    [][\A c \in CallIds :
          (/\ calls[c].st = "idle"
           /\ calls'[c].st = "called"
           /\ ArgAt(calls'[c].args, Len(calls'[c].args)).t # "function")
          => /\ calls'[c].thrown = Err("Callback is required", <<>>, "")
             /\ calls'[c].cb = <<>>
             /\ UNCHANGED <<options, accessToken, refreshToken, wire>>]_vars

\* A call without a callable completion has been made after another call
\* left a request with the transport.
C8_Witness ==
    \E c \in CallIds :
        /\ Called(c) /\ ~Callable(c)
        /\ calls[c].thrown = Err("Callback is required", <<>>, "")
        /\ Len(wire) > 0

\* C9: a call of an operation with a schema (not GET) whose payload violates
\* the schema causes no request of any kind, OAuth exchange included,
\* whether or not a token is stored.  (The calls that argument binding
\* rejects are left out: they send nothing either.)
C9_InvalidPayloadSendsNothing ==
    \A c \in CallIds :
        (/\ Called(c) /\ Callable(c)
         /\ calls[c].thrown = NoErr
         /\ Method(calls[c].desc) # "GET"
         /\ calls[c].schema.defined
         /\ Validate(calls[c].schema, PayloadArg(c)) # {})
        => RequestsOf(c) = {}

\* C10: a call made while an access token is stored causes no OAuth
\* exchange, and the API request it sends carries that token as the query
\* parameter access_token.
C10_StoredToken ==
    \A c \in CallIds :
        (Called(c) /\ calls[c].tokenAtCall # Undefined)
        => \A i \in RequestsOf(c) :
               /\ wire[i].req.cred = NoCred
               /\ wire[i].req.qs.at = calls[c].tokenAtCall

\* With a token stored, a GET call and a call with a body have each sent
\* their API request.
C10_Witness ==
    \E c1, c2 \in CallIds :
        /\ calls[c1].tokenAtCall # Undefined /\ calls[c2].tokenAtCall # Undefined
        /\ \E i \in RequestsOf(c1) : wire[i].req.method = "GET"
        /\ \E i \in RequestsOf(c2) : wire[i].req.method \in {"POST", "PUT", "DELETE"}

-----------------------------------------------------------------------------
(* What the claims on the token manager speak of *)

\* The token exchanges sent to the transport, of either grant.
OAuthRequests == {i \in 1..Len(wire) : wire[i].req.cred.grant_type # Undefined}

\* The answer is a failure: a transport error, or a status outside [200, 300).
Failed(resp) == resp.error # Undefined \/ resp.status < 200 \/ resp.status >= 300

\* The message the claims give the failure of an answer: the transport
\* error's, the body's message, or "Unknown Error".
CauseMessage(resp) ==
    IF resp.error # Undefined THEN resp.error
    ELSE IF resp.body.present /\ resp.body.message # Undefined THEN resp.body.message
         ELSE "Unknown Error"

\* The call reached the token manager.
ReachedTokenManager(c) == calls[c].st = "called" /\ calls[c].thrown = NoErr

-----------------------------------------------------------------------------
(* Claims on the token manager and the executor *)

\* C11: when the answer to a token exchange (of either grant) is a failure,
\* the stored access token and refresh token are then exactly what they were
\* when the exchange started.
C11_FailedExchangeRestores ==
    [][\A i \in OAuthRequests :
          (~wire[i].answered /\ wire'[i].answered /\ Failed(wire'[i].resp))
          => (accessToken' = wire[i].at /\ refreshToken' = wire[i].rt)]_vars

\* C12: when the token exchange of an operation call fails, the call's
\* completion is handed the error 'Error getting the access_token: ' with
\* the message of the cause, nothing is thrown, and the call sends no API
\* request.
C12_TokenFailureDelivered ==
    \A i \in OAuthRequests :
        (/\ calls[wire[i].origin].kind = "operation"
         /\ wire[i].answered /\ Failed(wire[i].resp))
        => /\ calls[wire[i].origin].cb =
                  <<[err |-> Err("Error getting the access_token: ", <<>>,
                                 CauseMessage(wire[i].resp)),
                     res |-> NoRes, at |-> Undefined, rt |-> Undefined]>>
           /\ calls[wire[i].origin].thrown = NoErr
           /\ calls[wire[i].origin].uncaught = NoErr
           /\ \A j \in RequestsOf(wire[i].origin) : wire[j].req.cred # NoCred

\* C13: with no access token stored and the client id or the client secret
\* missing, generateAccessToken hands its callback the error 'Must set
\* client_id and client_secret', no request is sent, and no token is stored.
C13_MissingCredentials ==
    (clientId = Undefined \/ clientSecret = Undefined)
    => \A c \in AllCallIds :
           (/\ ReachedTokenManager(c)
            /\ calls[c].kind \in {"operation", "generateAccessToken"}
            /\ calls[c].tokenAtCall = Undefined)
           => /\ calls[c].cb =
                     <<[err |-> Err("Must set client_id and client_secret", <<>>, ""),
                        res |-> NoRes, at |-> Undefined, rt |-> Undefined]>>
              /\ RequestsOf(c) = {}
              /\ accessToken = Undefined /\ refreshToken = Undefined

\* With the client secret missing, generateAccessToken has been called and
\* an operation has been called.
C13_Witness ==
    /\ clientSecret = Undefined
    /\ \E c1, c2 \in AllCallIds :
           /\ calls[c1].kind = "generateAccessToken" /\ Len(calls[c1].cb) = 1
           /\ calls[c2].kind = "operation" /\ Len(calls[c2].cb) = 1

\* C14: exec hands its callback exactly one outcome for the answer of the
\* transport: the transport's error; for a status outside [200, 300) an
\* error carrying the status code whose message is the body's message, or
\* 'Unknown Error' when the body has none or is absent; for a status in
\* [200, 300) the result {status, body}.
C14_ExecutorClassifies ==
    \A i \in ApiRequests :
        wire[i].answered
        => /\ calls[wire[i].origin].uncaught = NoErr
           /\ Len(calls[wire[i].origin].cb) = 1
           /\ LET out == calls[wire[i].origin].cb[1]
                  resp == wire[i].resp
              IN  IF resp.error # Undefined
                  THEN out.err.text = resp.error /\ out.res = NoRes
                  ELSE IF Failed(resp)
                       THEN /\ out.err.text = CauseMessage(resp)
                            /\ out.err.statusCode = ToString(resp.status)
                            /\ out.res = NoRes
                       ELSE /\ out.err = NoErr
                            /\ out.res = ResponseRes(resp.status, resp.body)

\* C15: the exchange refreshAccessToken sends is a POST to /oauth/token with
\* grant_type 'refresh_token' whose payload carries the refresh token stored
\* at that moment, and whose client_secret is not the stored access token.
C15_RefreshPayload ==
    \A i \in OAuthRequests :
        wire[i].req.cred.grant_type = "refresh_token"
        => /\ wire[i].req.method = "POST"
           /\ wire[i].req.uri =
                  BaseUrl \o <<"/", "o", "a", "u", "t", "h", "/", "t", "o", "k", "e", "n">>
           /\ wire[i].req.cred.refresh_token = wire[i].rt
           /\ wire[i].req.cred.client_secret # wire[i].at

\* C16: a refresh exchange is never outstanding at the transport together
\* with another token exchange, be it a refresh or an acquisition.
C16_RefreshSingleFlight ==
    \A i, j \in OAuthRequests :
        (i # j /\ ~wire[i].answered /\ ~wire[j].answered)
        => (/\ wire[i].req.cred.grant_type # "refresh_token"
            /\ wire[j].req.cred.grant_type # "refresh_token")

\* C17: every API request of an operation carries an access_token, the one
\* stored when it is sent; and when the call was made with no token stored,
\* the request is sent only after the call's exchange was answered with
\* success, and carries the token of that answer.
C17_ApiRequestAfterExchange ==
    \A i \in ApiRequests :
        /\ wire[i].req.qs.at # Undefined
        /\ wire[i].req.qs.at = wire[i].at
        /\ calls[wire[i].origin].tokenAtCall = Undefined
           => \E j \in Exchanges :
                  /\ j < i /\ wire[j].origin = wire[i].origin
                  /\ wire[j].answered /\ ~Failed(wire[j].resp)
                  /\ wire[i].req.qs.at = wire[j].resp.body.access_token

\* C18: whenever the completion of generateAccessToken or refreshAccessToken
\* is invoked with a token, the stored access token is at that moment that
\* token; and when the caller's exchange is answered with success and a
\* body, the completion is invoked once, with the access token of the
\* response, the stored tokens being then the two of that response.  (An
\* answer with no body releases no caller and stores nothing.)
C18_StoredBeforeRelease ==
    \A c \in AllCallIds :
        calls[c].kind \in {"generateAccessToken", "refreshAccessToken"}
        => /\ \A n \in 1..Len(calls[c].cb) :
                  calls[c].cb[n].res.kind = "token"
                  => calls[c].cb[n].at = calls[c].cb[n].res.token
           /\ \A i \in RequestsOf(c) :
                  (wire[i].answered /\ ~Failed(wire[i].resp) /\ wire[i].resp.body.present)
                  => calls[c].cb =
                         <<[err |-> NoErr,
                            res |-> TokenRes(wire[i].resp.body.access_token),
                            at |-> wire[i].resp.body.access_token,
                            rt |-> wire[i].resp.body.refresh_token]>>

\* An acquisition and a refresh have each released their caller with a token.
C18_Witness ==
    \E c1, c2 \in AllCallIds :
        /\ calls[c1].kind = "generateAccessToken" /\ calls[c2].kind = "refreshAccessToken"
        /\ \E i \in RequestsOf(c1) :
               /\ wire[i].answered /\ ~Failed(wire[i].resp)
               /\ wire[i].resp.body.access_token # Undefined
        /\ \E j \in RequestsOf(c2) :
               /\ wire[j].answered /\ ~Failed(wire[j].resp)
               /\ wire[j].resp.body.access_token # Undefined

\* C19: the payload object a caller passed to an operation has, after the
\* call, the properties it had before, with no access_token among them, and
\* the query of the API request is not that object.
C19_PayloadUntouched ==
    \A c \in CallIds :
        (ReachedTokenManager(c) /\ HasPayloadArg(c))
        => /\ calls[c].payload = PayloadArg(c)
           /\ \A i \in RequestsOf(c) \cap ApiRequests : ~wire[i].req.qsIsPayload

\* C20: the stored access token and refresh token are both absent, or are
\* the pair of one successful answer to a token exchange (the pair the
\* configuration held from the start counting as one).
C20_TokenPair ==
    \/ accessToken = Undefined /\ refreshToken = Undefined
    \/ accessToken = "t0" /\ refreshToken = "r0"
    \/ \E i \in OAuthRequests :
           /\ wire[i].answered /\ ~Failed(wire[i].resp)
           /\ accessToken = wire[i].resp.body.access_token
           /\ refreshToken = wire[i].resp.body.refresh_token

\* Two acquisitions were outstanding together and both were answered with
\* success, the one sent first being answered last.
C20_Witness ==
    /\ \E i, j \in OAuthRequests :
           /\ i < j
           /\ wire[i].answered /\ ~Failed(wire[i].resp)
           /\ wire[j].answered /\ ~Failed(wire[j].resp)
           /\ wire[i].at = Undefined /\ wire[j].at = Undefined
           /\ wire[j].resp.body.access_token # Undefined
           /\ accessToken # Undefined
           /\ accessToken = wire[i].resp.body.access_token

====
